---------------------------- MODULE Spec2Model ----------------------------
(***************************************************************************)
(* The property synchronisation pipelines of backend/data: the Auckland,   *)
(* QLDC and Wellington download scripts, which page through an ArcGIS      *)
(* feature service and upsert each page into the `properties` table.       *)
(*                                                                         *)
(* Conventions.  A nullable value is a set with at most one element: {}    *)
(* is None / SQL NULL and {v} is the value v.  A text that the code takes  *)
(* apart (an address and the fields derived from it) is a sequence of      *)
(* one-character strings.  The durable table is a function from the        *)
(* object_ids present to their rows.                                       *)
(***************************************************************************)
EXTENDS Integers, Sequences, FiniteSets, TLC

(* ------------------------------ bounds -------------------------------- *)

\* records_per_page / batch_size of the scripts (1000), scaled down.
PageSize == 2

\* The wall clock: datetime.now() is read once per page, and at most
\* MaxClock pages are stamped in one behaviour.
MaxClock == 2

\* The answers of the count query: none, fewer and more than the service
\* has features.
Counts == {0, 1, 5}

\* The longest address text that is taken apart.
MaxAddressLen == 8

\* The most vertices of a ring that is encoded.
MaxRingLen == 4

(* ------------------------------ values -------------------------------- *)

Null == {}

Some(v) == {v}

IsNull(o) == o = {}

\* The value of a non-null nullable.
The(o) == CHOOSE v \in o : TRUE

Sources == {"auckland", "qldc", "wellington"}

ObjectIds == {101, 102}

Addr1 == <<"7", " ", "W", "\r", "P", "\r", "A", " ", "2", "1", "2", "0">>

Addr2 == <<"9", " ", "K", "\n", "B", " ">>

Digits == {"0", "1", "2", "3", "4", "5", "6", "7", "8", "9"}

\* str.strip() and str.splitlines(): the white space and the line breaks
\* that occur in the modelled texts.
LineBreaks == {"\r", "\n"}

Spaces == {" ", "\t"} \cup LineBreaks

(* -------------------- the upstream feature service -------------------- *)

\* geometry.rings of a feature: version 1 has one ring, version 2 has an
\* outer ring and a hole.
RingsOf(ver) ==
    IF ver = 1
    THEN << <<<<0, 0>>, <<4, 0>>, <<4, 4>>, <<0, 0>>>> >>
    ELSE << <<<<1, 1>>, <<9, 1>>, <<9, 9>>, <<1, 1>>>>,
            <<<<2, 2>>, <<3, 2>>, <<3, 3>>, <<2, 2>>>> >>

\* One raw feature: OBJECTID, the address attribute, the capital value
\* attribute, and `ver`, which fixes every other attribute and the
\* geometry (two versions of the rest of the record).  `bad` names the
\* member that is malformed, "none" in a well-formed feature.  `geometry`
\* is the rings of the feature's geometry, Null in a feature that has no
\* geometry or a geometry without rings.
Feature(oid, addr, cv, ver) ==
    [oid |-> oid, addr |-> addr, cv |-> cv, ver |-> ver, bad |-> "none",
     geometry |-> Some(RingsOf(ver))]

\* The features the service can hold.  Parcel 101 in six states: as first
\* valued; revalued (and otherwise changed); with only its other
\* attributes changed; readdressed; without a capital value; and without
\* address or capital value.  Parcel 102, and a feature with no OBJECTID.
Features ==
    { Feature(Some(101), Some(Addr1), Some(500), 1),
      Feature(Some(101), Some(Addr1), Some(650), 2),
      Feature(Some(101), Some(Addr1), Some(500), 2),
      Feature(Some(101), Some(Addr2), Some(500), 1),
      Feature(Some(101), Some(Addr1), Null, 1),
      Feature(Some(101), Null, Null, 2),
      Feature(Some(102), Some(Addr1), Some(500), 1),
      Feature(Null, Some(Addr1), Some(500), 1) }

\* The feature f with one member malformed: "date", the valuation date
\* attribute is of the wrong type or no date; "area", the area attribute is
\* a text that holds no number; "rings", the geometry is {'rings': []}.
Malformed(f, what) == [f EXCEPT !.bad = what]

\* Parcel 102 with each kind of malformed member.
MalformedFeatures ==
    {Malformed(Feature(Some(102), Some(Addr1), Some(500), 1), what) :
        what \in {"date", "area", "rings"}}

\* The attributes fixed by a feature's version.
LandValueOf(ver) == Some(100 * ver)

ImprovementsOf(ver) == Some(40 * ver)

LandUseOf(ver) == Some(IF ver = 1 THEN "Residential" ELSE "Commercial")

PropertyTypeOf(ver) == Some(IF ver = 1 THEN "Dwelling" ELSE "Shop")

PropertyNoOf(ver) == Some(7000 + ver)

StreetOf(ver) == Some(IF ver = 1 THEN <<"W">> ELSE <<"K">>)

LocalityOf(ver) == Some(IF ver = 1 THEN <<"A">> ELSE <<"B">>)

PostcodeOf(ver) == Some(IF ver = 1 THEN <<"2", "1", "2", "0">> ELSE <<"6", "0", "1", "1">>)

AreaOf(ver) == Some(1234 * ver)

ValuationDayOf(ver) == Some(19000 + ver)

(* ------------------------- the normalizers ---------------------------- *)

\* f"{x}" of a coordinate, and the number a literal's text stands for.
FormatNumber(n) ==
    CASE n = 0 -> "0" [] n = 1 -> "1" [] n = 2 -> "2" [] n = 3 -> "3"
      [] n = 4 -> "4" [] n = 5 -> "5" [] n = 6 -> "6" [] n = 7 -> "7"
      [] n = 8 -> "8" [] n = 9 -> "9"

ParseNumber(t) == CHOOSE n \in 0 .. 9 : FormatNumber(n) = t

\* ', '.join(coord_pairs) with coord_pairs = [f"{x} {y}" for x, y in ring]:
\* the text as the sequence of its pieces.
RECURSIVE JoinPairs(_)
JoinPairs(ring) ==
    IF ring = <<>> THEN <<>>
    ELSE <<FormatNumber(Head(ring)[1]), " ", FormatNumber(Head(ring)[2])>>
         \o (IF Tail(ring) = <<>> THEN <<>> ELSE <<", ">> \o JoinPairs(Tail(ring)))

\* A literal that closes the ring: the first pair is listed again at the
\* end.
WktOfClosedRing(geometry) ==
    IF IsNull(geometry) THEN Null
    ELSE LET ring == The(geometry)[1]
         IN  Some(<<"POLYGON((">>
                  \o JoinPairs(IF ring = <<>> THEN ring ELSE Append(ring, ring[1]))
                  \o <<"))">>)

\* wkt_string: None without geometry or rings, else POLYGON((...)) of the
\* first ring's coordinate pairs, in order.
WktOf(geometry) ==
    IF IsNull(geometry) THEN Null
    ELSE Some(<<"POLYGON((">> \o JoinPairs(The(geometry)[1]) \o <<"))">>)

\* The points a polygon literal lists.
PointsOf(literal) ==
    [k \in 1 .. ((Len(literal) - 1) \div 4) |->
        <<ParseNumber(literal[4 * k - 2]), ParseNumber(literal[4 * k])>>]

\* ST_GeomFromText(geometry_wkt, 2193): NULL of NULL, else the polygon of
\* the literal.
ST_GeomFromText(wkt) ==
    IF IsNull(wkt) THEN Null
    ELSE Some([srid |-> 2193, ring |-> PointsOf(The(wkt))])

\* ST_GeomFromText raises for the literal: a polygon's ring has at least
\* four points and ends where it starts.
InvalidPolygon(wkt) ==
    /\ ~IsNull(wkt)
    /\ LET ring == PointsOf(The(wkt))
       IN  Len(ring) < 4 \/ ring[1] # ring[Len(ring)]

RECURSIVE LStrip(_)
LStrip(s) ==
    IF s # <<>> /\ Head(s) \in Spaces THEN LStrip(Tail(s)) ELSE s

RECURSIVE RStrip(_)
RStrip(s) ==
    IF s # <<>> /\ s[Len(s)] \in Spaces THEN RStrip(SubSeq(s, 1, Len(s) - 1)) ELSE s

\* str.strip()
Strip(s) == RStrip(LStrip(s))

\* str.splitlines(), the line under construction in `cur`.  A "\r\n" pair
\* gives one more empty line than Python's, which the caller discards.
RECURSIVE SplitLinesFrom(_, _)
SplitLinesFrom(s, cur) ==
    IF s = <<>> THEN (IF cur = <<>> THEN <<>> ELSE <<cur>>)
    ELSE IF Head(s) \in LineBreaks THEN <<cur>> \o SplitLinesFrom(Tail(s), <<>>)
    ELSE SplitLinesFrom(Tail(s), Append(cur, Head(s)))

SplitLines(s) == SplitLinesFrom(s, <<>>)

\* [part.strip() for part in lines if part.strip()]
RECURSIVE NonBlankParts(_)
NonBlankParts(lines) ==
    IF lines = <<>> THEN <<>>
    ELSE IF Strip(Head(lines)) = <<>> THEN NonBlankParts(Tail(lines))
    ELSE <<Strip(Head(lines))>> \o NonBlankParts(Tail(lines))

\* A pattern that takes the last four characters of the line, digits or
\* not.
EndsWithFourCharacters(s) == Len(s) >= 4

\* re.search(r'(\d{4})$', last_part) on a stripped line.
EndsWithFourDigits(s) ==
    /\ Len(s) >= 4
    /\ \A i \in (Len(s) - 3) .. Len(s) : s[i] \in Digits

parse_auckland_address(address_string) ==
    IF IsNull(address_string) \/ address_string = Some(<<>>)
    THEN [street |-> Null, locality |-> Null, postcode |-> Null]
    ELSE LET parts == NonBlankParts(SplitLines(The(address_string)))
             last_part == parts[Len(parts)]
         IN  [street   |-> IF Len(parts) > 0 THEN Some(parts[1]) ELSE Null,
              locality |-> IF Len(parts) > 1
                           THEN IF EndsWithFourDigits(last_part)
                                THEN Some(Strip(SubSeq(last_part, 1, Len(last_part) - 4)))
                                ELSE Some(last_part)
                           ELSE Null,
              postcode |-> IF Len(parts) > 1 /\ EndsWithFourDigits(last_part)
                           THEN Some(SubSeq(last_part, Len(last_part) - 3, Len(last_part)))
                           ELSE Null]

\* parse_area_label(attributes.get('AREALABEL')): None for a label in which
\* the pattern finds no number.
parse_area_label(f) == IF f.bad = "area" THEN Null ELSE AreaOf(f.ver)

\* Wellington's strptime in try / except: None for a value that raises.
ParseWellingtonDate(f) == IF f.bad = "date" THEN Null ELSE ValuationDayOf(f.ver)

\* The tuple the Auckland script appends to all_values for one feature.
NormalizeAuckland(f, now) ==
    LET parsed_address == parse_auckland_address(f.addr)
    IN  [object_id                 |-> f.oid,
         property_no               |-> PropertyNoOf(f.ver),
         physical_address          |-> f.addr,
         street                    |-> parsed_address.street,
         locality                  |-> parsed_address.locality,
         postcode                  |-> parsed_address.postcode,
         land_value                |-> LandValueOf(f.ver),
         capital_value             |-> f.cv,
         improvements_value        |-> ImprovementsOf(f.ver),
         land_use_description      |-> LandUseOf(f.ver),
         property_type_description |-> PropertyTypeOf(f.ver),
         survey_area               |-> parse_area_label(f),
         calculated_area           |-> Null,
         valuation_date            |-> ValuationDayOf(f.ver),
         last_updated              |-> now,
         district                  |-> Null,
         geometry_wkt              |-> WktOf(f.geometry)]

\* The tuple the QLDC script appends to all_values for one feature.
NormalizeQldc(f, now) ==
    [object_id                 |-> f.oid,
     property_no               |-> PropertyNoOf(f.ver),
     physical_address          |-> f.addr,
     street                    |-> StreetOf(f.ver),
     locality                  |-> LocalityOf(f.ver),
     postcode                  |-> PostcodeOf(f.ver),
     land_value                |-> LandValueOf(f.ver),
     capital_value             |-> f.cv,
     improvements_value        |-> ImprovementsOf(f.ver),
     land_use_description      |-> LandUseOf(f.ver),
     property_type_description |-> PropertyTypeOf(f.ver),
     survey_area               |-> AreaOf(f.ver),
     calculated_area           |-> AreaOf(f.ver),
     valuation_date            |-> Null,
     last_updated              |-> now,
     district                  |-> Null,
     geometry_wkt              |-> WktOf(f.geometry)]

\* The tuple the Wellington script appends to values for one feature.
NormalizeWellington(f, now) ==
    [object_id                 |-> f.oid,
     property_no               |-> PropertyNoOf(f.ver),
     physical_address          |-> f.addr,
     street                    |-> StreetOf(f.ver),
     locality                  |-> LocalityOf(f.ver),
     postcode                  |-> PostcodeOf(f.ver),
     land_value                |-> LandValueOf(f.ver),
     capital_value             |-> f.cv,
     improvements_value        |-> ImprovementsOf(f.ver),
     land_use_description      |-> LandUseOf(f.ver),
     property_type_description |-> PropertyTypeOf(f.ver),
     survey_area               |-> AreaOf(f.ver),
     calculated_area           |-> Null,
     valuation_date            |-> ParseWellingtonDate(f),
     last_updated              |-> now,
     district                  |-> Some("Wellington"),
     geometry_wkt              |-> WktOf(f.geometry)]

Normalize(src, f, now) ==
    CASE src = "auckland"   -> NormalizeAuckland(f, now)
      [] src = "qldc"       -> NormalizeQldc(f, now)
      [] src = "wellington" -> NormalizeWellington(f, now)

\* Auckland and QLDC skip a feature whose OBJECTID is None; Wellington
\* appends every feature.
SkipsMissingId(src) == src \in {"auckland", "qldc"}

\* Building the tuple of feature f raises: geometry['rings'][0] of an
\* empty ring list (IndexError) in every script; Auckland's
\* valuation_date_ms / 1000.0 of a value that is no number (TypeError);
\* Wellington's float(attr.get("LandArea")) of a text that is no number
\* (ValueError).  A feature that is skipped is not looked at.
NormalizeRaises(src, f) ==
    /\ ~(SkipsMissingId(src) /\ IsNull(f.oid))
    /\ \/ f.bad = "rings"
       \/ src = "auckland" /\ f.bad = "date"
       \/ src = "wellington" /\ f.bad = "area"

\* execute_values raises for the tuple of feature f: QLDC hands the area
\* attribute as it is to a NUMERIC column.
LoadRaises(src, f) ==
    /\ ~(SkipsMissingId(src) /\ IsNull(f.oid))
    /\ src = "qldc" /\ f.bad = "area"

\* all_values / values: the batch built from one page of features.
RECURSIVE BuildBatch(_, _, _)
BuildBatch(src, features, now) ==
    IF features = <<>> THEN <<>>
    ELSE IF SkipsMissingId(src) /\ IsNull(Head(features).oid)
         THEN BuildBatch(src, Tail(features), now)
         ELSE <<Normalize(src, Head(features), now)>>
              \o BuildBatch(src, Tail(features), now)

(* --------------------------- the upsert ------------------------------- *)

\* a <> b, which is not true when either side is NULL.
NotEqual(a, b) == ~IsNull(a) /\ ~IsNull(b) /\ The(a) # The(b)

\* a IS DISTINCT FROM b
IsDistinctFrom(a, b) ==
    \/ IsNull(a) /\ ~IsNull(b)
    \/ ~IsNull(a) /\ IsNull(b)
    \/ ~IsNull(a) /\ ~IsNull(b) /\ The(a) # The(b)

\* An ON CONFLICT ... DO UPDATE without its WHERE clause.
NoChangePredicate(row, excluded) == TRUE

\* The WHERE clause of ON CONFLICT ... DO UPDATE.
ChangePredicate(row, excluded) ==
    \/ IsDistinctFrom(row.capital_value, excluded.capital_value)
    \/ IsDistinctFrom(row.physical_address, excluded.physical_address)

\* The row INSERT INTO properties ... SELECT makes of one staged record.
\* Only the Wellington statement names the district column.
InsertRow(src, rec) ==
    [object_id                 |-> rec.object_id,
     property_no               |-> rec.property_no,
     physical_address          |-> rec.physical_address,
     street                    |-> rec.street,
     locality                  |-> rec.locality,
     postcode                  |-> rec.postcode,
     land_value                |-> rec.land_value,
     capital_value             |-> rec.capital_value,
     improvements_value        |-> rec.improvements_value,
     land_use_description      |-> rec.land_use_description,
     property_type_description |-> rec.property_type_description,
     survey_area               |-> rec.survey_area,
     calculated_area           |-> rec.calculated_area,
     valuation_date            |-> rec.valuation_date,
     last_updated              |-> rec.last_updated,
     district                  |-> IF src = "wellington" THEN rec.district ELSE Null,
     geom                      |-> ST_GeomFromText(rec.geometry_wkt)]

\* A DO UPDATE SET that assigns every column of the Auckland INSERT.
UpdateRowAucklandEveryColumn(row, excluded) ==
    [excluded EXCEPT !.district = row.district]

\* DO UPDATE SET of the Auckland statement.
UpdateRowAuckland(row, excluded) ==
    [row EXCEPT !.property_no      = excluded.property_no,
                !.physical_address = excluded.physical_address,
                !.street           = excluded.street,
                !.locality         = excluded.locality,
                !.postcode         = excluded.postcode,
                !.capital_value    = excluded.capital_value,
                !.valuation_date   = excluded.valuation_date,
                !.last_updated     = excluded.last_updated,
                !.geom             = excluded.geom]

\* The QLDC DO UPDATE SET without last_updated = EXCLUDED.last_updated.
UpdateRowQldcKeepsStamp(row, excluded) ==
    [row EXCEPT !.property_no      = excluded.property_no,
                !.physical_address = excluded.physical_address,
                !.capital_value    = excluded.capital_value,
                !.valuation_date   = excluded.valuation_date,
                !.geom             = excluded.geom]

\* DO UPDATE SET of the QLDC statement.
UpdateRowQldc(row, excluded) ==
    [row EXCEPT !.property_no      = excluded.property_no,
                !.physical_address = excluded.physical_address,
                !.capital_value    = excluded.capital_value,
                !.valuation_date   = excluded.valuation_date,
                !.last_updated     = excluded.last_updated,
                !.geom             = excluded.geom]

\* DO UPDATE SET of the Wellington statement.
UpdateRowWellington(row, excluded) ==
    [row EXCEPT !.capital_value    = excluded.capital_value,
                !.physical_address = excluded.physical_address,
                !.valuation_date   = excluded.valuation_date,
                !.last_updated     = excluded.last_updated,
                !.district         = excluded.district,
                !.geom             = excluded.geom]

UpdateRow(src, row, excluded) ==
    CASE src = "auckland"   -> UpdateRowAuckland(row, excluded)
      [] src = "qldc"       -> UpdateRowQldc(row, excluded)
      [] src = "wellington" -> UpdateRowWellington(row, excluded)

\* A write that deletes the rows of the other object_ids (a full refresh).
PutRowAlone(t, id, row) == [i \in {id} |-> row]

\* The table with the row of object_id `id` set to `row`.
PutRow(t, id, row) ==
    [i \in DOMAIN t \cup {id} |-> IF i = id THEN row ELSE t[i]]

\* An upsert whose cur.rowcount counts every staged record twice, as a
\* delete and an insert.
RECURSIVE UpsertRowsCountsTwice(_, _, _)
UpsertRowsCountsTwice(src, t, staged) ==
    IF staged = <<>> THEN [table |-> t, rowcount |-> 0]
    ELSE LET rec      == Head(staged)
             id       == The(rec.object_id)
             excluded == InsertRow(src, rec)
             fires    == id \notin DOMAIN t \/ ChangePredicate(t[id], excluded)
             t1       == IF id \notin DOMAIN t THEN PutRow(t, id, excluded)
                         ELSE IF fires THEN PutRow(t, id, UpdateRow(src, t[id], excluded))
                         ELSE t
             rest     == UpsertRowsCountsTwice(src, t1, Tail(staged))
         IN  [table |-> rest.table, rowcount |-> rest.rowcount + 2]

\* INSERT ... SELECT ... FROM temp_properties ON CONFLICT (object_id) DO
\* UPDATE ... WHERE ..., row by row: the table it leaves and cur.rowcount.
RECURSIVE UpsertRows(_, _, _)
UpsertRows(src, t, staged) ==
    IF staged = <<>> THEN [table |-> t, rowcount |-> 0]
    ELSE LET rec      == Head(staged)
             id       == The(rec.object_id)
             excluded == InsertRow(src, rec)
             fires    == id \notin DOMAIN t \/ ChangePredicate(t[id], excluded)
             t1       == IF id \notin DOMAIN t THEN PutRow(t, id, excluded)
                         ELSE IF fires THEN PutRow(t, id, UpdateRow(src, t[id], excluded))
                         ELSE t
             rest     == UpsertRows(src, t1, Tail(staged))
         IN  [table |-> rest.table,
              rowcount |-> rest.rowcount + (IF fires THEN 1 ELSE 0)]

\* properties.object_id is the PRIMARY KEY: a staged record with a NULL
\* object_id makes the statement fail (not-null violation).
ViolatesPrimaryKey(staged) ==
    \E i \in 1 .. Len(staged) : IsNull(staged[i].object_id)

\* ST_GeomFromText in the INSERT ... SELECT raises for a staged record.
ViolatesGeometry(staged) ==
    \E i \in 1 .. Len(staged) : InvalidPolygon(staged[i].geometry_wkt)

\* A page whose transaction is never committed: its work is lost.
NoCommit(durable, working) == durable

\* conn.commit(): the transaction's working table becomes the durable one.
Commit(durable, working) == working

\* A handler that commits instead of rolling back.
CommitOnError(durable, working) == working

\* conn.rollback(): the transaction's working table is discarded.
Rollback(durable, working) == durable

(* ------------------------- the service's pages ------------------------ *)

\* The position of a feature in a page: the service answers in OBJECTID
\* order, a feature without OBJECTID first.
KeyOf(f) == IF IsNull(f.oid) THEN 0 ELSE The(f.oid)

RECURSIVE SeqOfFeatures(_)
SeqOfFeatures(S) ==
    IF S = {} THEN <<>>
    ELSE LET first == CHOOSE f \in S : \A g \in S : KeyOf(f) <= KeyOf(g)
         IN  <<first>> \o SeqOfFeatures(S \ {first})

\* data['features'] of a page response: at most PageSize features, no two
\* of them with the same OBJECTID (object_id is unique within a source).
Pages ==
    {SeqOfFeatures(S) : S \in {T \in SUBSET Features :
        /\ Cardinality(T) <= PageSize
        /\ \A f, g \in T : f # g => KeyOf(f) # KeyOf(g)}}

(* ------------------------------ state --------------------------------- *)

VARIABLES
    src,              \* the script that runs
    pc,               \* where the run is
    conn,             \* the psycopg2 connection: "none", "open", "closed"
    total_records,    \* the script's locals; Null while unassigned
    offset,
    total_processed,
    total_upserted,
    rows_affected,
    progress,         \* the percentage last printed
    features,         \* the page fetched and not yet merged
    exceeded,         \* data.get('exceededTransferLimit', False) of that page,
                      \* which only the Auckland script reads
    staging,          \* the rows of temp_properties in the session
    table,            \* the committed rows of properties
    clock,            \* datetime.now(timezone.utc)
    fetches,          \* history: the resultOffset of each page request of the run
    summary,          \* output: the totals the run printed, Null if none
    failedAt,         \* history: the step that raised, "none" if none
    lastMerge,        \* history: the last merge the run committed: the table
                      \* before it, its batch, the table its upsert computed,
                      \* its cur.rowcount, whether its batch repeats that of
                      \* the merge before it, the rows it found in
                      \* temp_properties and the rows its upsert read there
    committed,        \* history: the features and the cur.rowcount of the
                      \* pages of the run whose transaction committed, summed
    events,           \* history: what the last step did to the service and
                      \* to the connection, in the order of the code
    service,          \* the feature service: Null when what it holds may
                      \* change from one request to the next, else the
                      \* features it holds, in the order it pages them, and
                      \* the most features it returns in one response
    runner            \* run.py: Null while it is not running, else the
                      \* files under its directory, the directories and the
                      \* files its walk has still to visit, and the scripts
                      \* it has executed, with their exit status

vars ==
    <<src, pc, conn, total_records, offset, total_processed, total_upserted,
      rows_affected, progress, features, exceeded, staging, table, clock,
      fetches, summary, failedAt, lastMerge, committed, events, service,
      runner>>

\* A batch without its last_updated stamps.
Unstamp(batch) == [i \in 1 .. Len(batch) |-> [batch[i] EXCEPT !.last_updated = 0]]

Terminal == {"Done", "Failed", "Exited", "Crashed"}

\* lastMerge of a run that has committed no merge.
NoMerge ==
    [done |-> FALSE, before |-> <<>>, batch |-> <<>>, after |-> <<>>,
     rowcount |-> 0, repeat |-> FALSE, found |-> <<>>, staged |-> <<>>]

\* committed of a run that has committed no merge.
NoneCommitted == [processed |-> 0, upserted |-> 0]

\* The start of a run of any script against an empty table.
InitRun ==
    /\ src \in Sources
    /\ pc = "Idle"
    /\ conn = "none"
    /\ total_records = Null
    /\ offset = Null
    /\ total_processed = Null
    /\ total_upserted = Null
    /\ rows_affected = Null
    /\ progress = Null
    /\ features = <<>>
    /\ exceeded = FALSE
    /\ staging = <<>>
    /\ table = <<>>
    /\ clock = 1
    /\ fetches = <<>>
    /\ summary = Null
    /\ failedAt = "none"
    /\ lastMerge = NoMerge
    /\ committed = NoneCommitted
    /\ events = <<>>

Init ==
    /\ InitRun
    /\ service = Null
    /\ runner = Null

(* ----------------------------- the run -------------------------------- *)

\* What the run prints once the loop has ended with `break`: the Sync
\* Summary of Auckland and QLDC, the "Sync complete" line of Wellington.
SummaryAfterBreak(s, tp, tu) ==
    IF s = "wellington"
    THEN Some([processed |-> Null, upserted |-> tu])
    ELSE Some([processed |-> tp, upserted |-> tu])

\* What follows an exception caught by the run's handlers: Wellington
\* prints no totals; Auckland and QLDC go on to the Sync Summary, which
\* reads total_processed and raises UnboundLocalError if it was never bound.
SummaryAfterError(s, tp, tu) ==
    IF s = "wellington" \/ IsNull(tp)
    THEN Null
    ELSE Some([processed |-> tp, upserted |-> tu])

PcAfterError(s, tp) ==
    IF s # "wellington" /\ IsNull(tp) THEN "Crashed" ELSE "Failed"

\* The exit status of the script's process: a script returns from its
\* function after every exception it catches and never calls sys.exit, so
\* only the uncaught UnboundLocalError gives a status other than 0.
ExitStatus(p) == IF p = "Crashed" THEN 1 ELSE 0

\* A last-page test that also ends the loop once total_processed has
\* reached total_records.
LastPageOrCountReached(s, flag, num_retrieved, tp, tr) ==
    \/ ~IsNull(tp) /\ The(tp) >= tr
    \/ s = "auckland" /\ ~flag /\ num_retrieved < PageSize
    \/ s = "qldc" /\ num_retrieved < PageSize

\* The test that ends the loop after a merged page.  Wellington has none.
LastPage(s, flag, num_retrieved, tp, tr) ==
    CASE s = "auckland"   -> ~flag /\ num_retrieved < PageSize
      [] s = "qldc"       -> num_retrieved < PageSize
      [] s = "wellington" -> FALSE

\* progress = (total_processed / total_records) * 100, as a whole number.
ProgressOf(tp, tr) == Some((The(tp) * 100) \div tr)

\* A loop that asks for the same page again.
SameOffset(off) == off

\* offset += records_per_page
NextOffset(off) == off + PageSize

\* A script without its finally block.
NoFinally(c) == <<>>

\* finally: if conn: conn.close()
Finally(c) == IF c = "open" THEN <<"close">> ELSE <<>>

\* except ...: if conn: conn.rollback(), and then the finally block.
Except(c) == (IF c = "open" THEN <<"rollback">> ELSE <<>>) \o Finally(c)

\* A page's transaction that is left open: no conn.commit().
MergeEventsUncommitted == <<"begin">>

\* The page's transaction: psycopg2 begins it at the first cur.execute, and
\* conn.commit() ends it.
MergeEvents == <<"begin", "commit">>

\* The connection after the events `evs`.
RECURSIVE ConnAfter(_, _)
ConnAfter(c, evs) ==
    IF evs = <<>> THEN c
    ELSE ConnAfter(CASE Head(evs) = "connect" -> "open"
                     [] Head(evs) = "close"   -> "closed"
                     [] OTHER                 -> c,
                   Tail(evs))

\* A CREATE TEMP TABLE IF NOT EXISTS in place of the DROP and CREATE.
KeepStaging(rows) == rows

\* DROP TABLE IF EXISTS temp_properties; CREATE TEMP TABLE temp_properties
ClearStaging(rows) == <<>>

\* execute_values(cur, INSERT INTO temp_properties ..., all_values)
LoadStaging(rows, batch) == rows \o batch

\* The page raises while its tuples are built or loaded.
PageRaises(s, page) ==
    \E i \in 1 .. Len(page) :
        NormalizeRaises(s, page[i]) \/ LoadRaises(s, page[i])

\* A script that connects before it looks for DATABASE_URL.
MissingConfigAfterConnect ==
    /\ pc = "Idle"
    /\ pc' = "Exited"
    /\ events' = <<"connect", "close">>
    /\ conn' = ConnAfter(conn, events')
    /\ UNCHANGED <<service, runner, src, total_records, offset, total_processed,
                   total_upserted, rows_affected, progress, features, exceeded,
                   staging, table, clock, fetches, summary, failedAt,
                   lastMerge, committed>>

\* The page's transaction cannot commit: a tuple raises while it is built
\* or loaded, or among the rows its upsert reads an object_id is NULL or a
\* literal is no polygon.
MergeMustFail(s, page, staged) ==
    \/ PageRaises(s, page)
    \/ ViolatesPrimaryKey(staged)
    \/ ViolatesGeometry(staged)

\* DATABASE_URL is not set: the script prints an error and returns.
MissingConfig ==
    /\ pc = "Idle"
    /\ pc' = "Exited"
    /\ events' = <<>>
    /\ conn' = ConnAfter(conn, events')
    /\ UNCHANGED <<service, runner, src, total_records, offset, total_processed,
                   total_upserted, rows_affected, progress, features, exceeded,
                   staging, table, clock, fetches, summary, failedAt,
                   lastMerge, committed>>

\* psycopg2.connect(db_url) succeeds.
Connect ==
    /\ pc = "Idle"
    /\ pc' = "Connected"
    /\ events' = <<"connect">>
    /\ conn' = ConnAfter(conn, events')
    /\ UNCHANGED <<service, runner, src, total_records, offset, total_processed, total_upserted,
                   rows_affected, progress, features, exceeded, staging, table,
                   clock, fetches, summary, failedAt,
                   lastMerge, committed>>

\* psycopg2.connect(db_url) raises: conn stays None.
ConnectFail ==
    /\ pc = "Idle"
    /\ pc' = PcAfterError(src, total_processed)
    /\ summary' = SummaryAfterError(src, total_processed, total_upserted)
    /\ failedAt' = "connect"
    /\ events' = Except(conn)
    /\ conn' = ConnAfter(conn, events')
    /\ UNCHANGED <<service, runner, src, total_records, offset, total_processed,
                   total_upserted, rows_affected, progress, features, exceeded,
                   staging, table, clock, fetches,
                   lastMerge, committed>>

\* The returnCountOnly query is answered, with a `count` of `counts` or
\* with a body that has no `count` member, which .get('count', 0) reads as
\* 0.  Auckland and QLDC return on a count of 0; Wellington does not look
\* at it.
CountFrom(counts) ==
    /\ pc = "Connected"
    /\ \E count \in counts \cup {0}, has_count \in BOOLEAN :
        /\ has_count => count \in counts
        /\ ~has_count => count = 0
        /\ total_records' = Some(count)
        /\ IF count = 0 /\ src # "wellington"
           THEN /\ pc' = "Exited"
                /\ events' = <<"count">>
                             \o (IF has_count THEN <<>> ELSE <<"unexpected body">>)
                             \o Finally(conn)
                /\ UNCHANGED <<offset, total_processed, total_upserted>>
           ELSE /\ pc' = "Paging"
                /\ events' = <<"count">>
                             \o (IF has_count THEN <<>> ELSE <<"unexpected body">>)
                /\ offset' = Some(0)
                /\ total_processed' = (IF src = "wellington" THEN Null ELSE Some(0))
                /\ total_upserted' = Some(0)
    /\ conn' = ConnAfter(conn, events')
    /\ UNCHANGED <<service, runner, src, rows_affected, progress, features, exceeded, staging,
                   table, clock, fetches, summary, failedAt,
                   lastMerge, committed>>

CountQuery == CountFrom(Counts)

\* The count query raises.  Auckland and QLDC catch it and return;
\* Wellington's outer handler takes it.
CountFail ==
    /\ pc = "Connected"
    /\ pc' = (IF src = "wellington" THEN "Failed" ELSE "Exited")
    /\ events' = <<"count">> \o (IF src = "wellington" THEN Except(conn)
                                 ELSE Finally(conn))
    /\ conn' = ConnAfter(conn, events')
    /\ failedAt' = "count"
    /\ UNCHANGED <<service, runner, src, total_records, offset, total_processed, total_upserted,
                   rows_affected, progress, features, exceeded, staging, table,
                   clock, fetches, summary,
                   lastMerge, committed>>

\* One page request and its response, everything but the progress line.
\* The response is a page of `pages`, or a body that has no `features`
\* member, which .get('features', []) reads as no features; `tr` is the
\* value read for total_records.
FetchFrom(pages, tr) ==
    /\ pc = "Paging"
    /\ \E page \in pages, flag \in BOOLEAN, has_features \in BOOLEAN :
        /\ page # <<>> => clock <= MaxClock
        /\ flag => page # <<>> /\ src = "auckland"
        /\ ~has_features => page = <<>>
        /\ fetches' = Append(fetches, The(offset))
        /\ IF page = <<>>
           THEN /\ pc' = "Done"
                /\ events' = <<"fetch">>
                             \o (IF has_features THEN <<>> ELSE <<"unexpected body">>)
                             \o Finally(conn)
                /\ staging' = <<>>
                /\ summary' = SummaryAfterBreak(src, total_processed, total_upserted)
                /\ UNCHANGED <<features, exceeded, total_processed>>
           ELSE /\ pc' = "Fetched"
                /\ events' = <<"fetch">>
                /\ features' = page
                /\ exceeded' = flag
                /\ total_processed' = (IF src = "wellington" THEN Null
                                       ELSE Some(The(total_processed) + Len(page)))
                /\ UNCHANGED <<staging, summary>>
    /\ conn' = ConnAfter(conn, events')
    /\ UNCHANGED <<service, runner, src, total_records, offset, total_upserted, rows_affected,
                   table, clock, failedAt,
                   lastMerge, committed>>

FetchPageCore(tr) == FetchFrom(Pages, tr)

FetchPage ==
    /\ FetchPageCore(The(total_records))
    /\ progress' = (IF pc' = "Fetched" /\ src # "wellington"
                    THEN ProgressOf(total_processed', The(total_records))
                    ELSE progress)

\* The page request raises (network error, timeout, HTTP status, a body
\* that is no JSON): rollback, close.
FetchFail ==
    /\ pc = "Paging"
    /\ fetches' = Append(fetches, The(offset))
    /\ pc' = PcAfterError(src, total_processed)
    /\ events' = <<"fetch">> \o Except(conn)
    /\ conn' = ConnAfter(conn, events')
    /\ staging' = <<>>
    /\ summary' = SummaryAfterError(src, total_processed, total_upserted)
    /\ failedAt' = "fetch"
    /\ UNCHANGED <<service, runner, src, total_records, offset, total_processed, total_upserted,
                   rows_affected, progress, features, exceeded, table, clock,
                   lastMerge, committed>>

\* The page's transaction: temp_properties is dropped and created, the
\* batch is loaded, the upsert runs, the transaction commits; then the
\* last-page test.
MergePageCore(tr) ==
    /\ pc = "Fetched"
    /\ LET batch  == BuildBatch(src, features, clock)
           staged == LoadStaging(ClearStaging(staging), batch)
           result == UpsertRows(src, table, staged)
           ends   == LastPage(src, exceeded, Len(features), total_processed, tr)
       IN  /\ ~MergeMustFail(src, features, staged)
           /\ table' = Commit(table, result.table)
           /\ rows_affected' = Some(result.rowcount)
           /\ total_upserted' = Some(The(total_upserted) + result.rowcount)
           /\ lastMerge' =
                  [done     |-> TRUE,
                   before   |-> table,
                   batch    |-> batch,
                   after    |-> result.table,
                   rowcount |-> result.rowcount,
                   repeat   |-> lastMerge.done
                                /\ Unstamp(batch) = Unstamp(lastMerge.batch),
                   found    |-> staging,
                   staged   |-> staged]
           /\ committed' =
                  [processed |-> committed.processed + Len(features),
                   upserted  |-> committed.upserted + result.rowcount]
           /\ events' = MergeEvents \o (IF ends THEN Finally(conn) ELSE <<>>)
           /\ IF ends
              THEN /\ pc' = "Done"
                   /\ staging' = <<>>
                   /\ summary' = SummaryAfterBreak(src, total_processed, total_upserted')
                   /\ UNCHANGED offset
              ELSE /\ pc' = "Paging"
                   /\ offset' = Some(NextOffset(The(offset)))
                   /\ staging' = staged
                   /\ UNCHANGED summary
    /\ conn' = ConnAfter(conn, events')
    /\ clock' = clock + 1
    /\ features' = <<>>
    /\ exceeded' = FALSE
    /\ UNCHANGED <<service, runner, src, total_records, total_processed, progress, fetches,
                   failedAt>>

MergePage == MergePageCore(The(total_records))

\* A statement or a conversion of the page's transaction raises: while
\* temp_properties is set up ("staging"), while a tuple is built
\* ("normalize"), while the tuples are loaded ("load"), in the upsert
\* (always so when a staged object_id is NULL or a staged literal is no
\* polygon), or at the commit.  The
\* handler rolls back and the connection closes.  Auckland and QLDC have
\* added cur.rowcount to total_upserted when the commit raises; Wellington
\* adds it after the commit.
MergeFail ==
    /\ pc = "Fetched"
    /\ LET batch    == BuildBatch(src, features, clock)
           staged   == LoadStaging(ClearStaging(staging), batch)
           result   == UpsertRows(src, table, staged)
           raises   == \E i \in 1 .. Len(features) :
                           NormalizeRaises(src, features[i])
           mustfail == MergeMustFail(src, features, staged)
       IN  \E point \in {"staging", "normalize", "load", "upsert", "commit"} :
            LET counted == point = "commit" /\ src # "wellington"
            IN  /\ point = "normalize" => raises
                /\ point = "load" => ~raises
                /\ point = "upsert" => ~PageRaises(src, features)
                /\ point = "commit" => ~mustfail
                /\ table' = Rollback(table, IF point = "commit" THEN result.table
                                            ELSE table)
                /\ rows_affected' =
                       (IF counted THEN Some(result.rowcount) ELSE rows_affected)
                /\ total_upserted' =
                       (IF counted THEN Some(The(total_upserted) + result.rowcount)
                        ELSE total_upserted)
                /\ failedAt' = point
    /\ pc' = PcAfterError(src, total_processed)
    /\ events' = <<"begin">> \o Except(conn)
    /\ conn' = ConnAfter(conn, events')
    /\ staging' = <<>>
    /\ summary' = SummaryAfterError(src, total_processed, total_upserted')
    /\ clock' = clock + 1
    /\ UNCHANGED <<service, runner, src, total_records, offset, total_processed,
                   progress, features, exceeded, fetches,
                   lastMerge, committed>>

\* The script is started again (run.py starts each script in turn).
NewRun ==
    /\ pc \in Terminal
    /\ src' \in Sources
    /\ pc' = "Idle"
    /\ conn' = "none"
    /\ total_records' = Null
    /\ offset' = Null
    /\ total_processed' = Null
    /\ total_upserted' = Null
    /\ rows_affected' = Null
    /\ progress' = Null
    /\ exceeded' = FALSE
    /\ fetches' = <<>>
    /\ summary' = Null
    /\ failedAt' = "none"
    /\ features' = <<>>
    /\ lastMerge' = NoMerge
    /\ committed' = NoneCommitted
    /\ events' = <<>>
    /\ UNCHANGED <<service, runner, staging, table, clock>>

Next ==
    \/ MissingConfig
    \/ Connect
    \/ ConnectFail
    \/ CountQuery
    \/ CountFail
    \/ FetchPage
    \/ FetchFail
    \/ MergePage
    \/ MergeFail
    \/ NewRun

Spec == Init /\ [][Next]_vars

\* The pages of a service that also holds malformed features.
MalformedPages ==
    {SeqOfFeatures(S) : S \in {T \in SUBSET (MalformedFeatures \cup
                                   {Feature(Some(101), Some(Addr1), Some(500), 1),
                                    Feature(Some(102), Some(Addr1), Some(500), 1)}) :
        /\ Cardinality(T) <= PageSize
        /\ \A f, g \in T : f # g => KeyOf(f) # KeyOf(g)}}

FetchMalformedPage ==
    /\ FetchFrom(MalformedPages, The(total_records))
    /\ progress' = (IF pc' = "Fetched" /\ src # "wellington"
                    THEN ProgressOf(total_processed', The(total_records))
                    ELSE progress)

NextMalformed ==
    \/ MissingConfig
    \/ Connect
    \/ ConnectFail
    \/ CountQuery
    \/ CountFail
    \/ FetchMalformedPage
    \/ FetchFail
    \/ MergePage
    \/ MergeFail
    \/ NewRun

\* The runs against a service that also holds malformed features.
SpecMalformed == Init /\ [][NextMalformed]_vars

\* The characters of the address texts: a digit, a letter, a blank and a
\* line break.
AddressAlphabet == {"1", "W", " ", "\r"}

\* Every text of at most MaxAddressLen characters.
Addresses == UNION {[1 .. n -> AddressAlphabet] : n \in 0 .. MaxAddressLen}

\* FORMATTEDADDRESS of a feature: absent, or a text.
AddressInputs == {Null} \cup {Some(a) : a \in Addresses}

\* The run of script s after its first page request returned `page`.
AfterFirstPage(s, page) ==
    /\ src = s
    /\ pc = "Fetched"
    /\ conn = "open"
    /\ total_records = Some(1)
    /\ offset = Some(0)
    /\ total_processed = (IF s = "wellington" THEN Null ELSE Some(Len(page)))
    /\ total_upserted = Some(0)
    /\ rows_affected = Null
    /\ progress = (IF s = "wellington" THEN Null
                   ELSE ProgressOf(Some(Len(page)), 1))
    /\ features = page
    /\ exceeded = FALSE
    /\ staging = <<>>
    /\ table = <<>>
    /\ clock = 1
    /\ fetches = <<0>>
    /\ summary = Null
    /\ failedAt = "none"
    /\ lastMerge = NoMerge
    /\ committed = NoneCommitted
    /\ events = <<"fetch">>
    /\ service = Null
    /\ runner = Null

\* An Auckland run that has fetched, as its first page, one parcel with
\* any address.
InitAddress ==
    \E addr \in AddressInputs :
        AfterFirstPage("auckland", <<Feature(Some(101), addr, Some(500), 1)>>)

NextAddress == MergePage

\* The merge of a page whose parcel carries any address.
SpecAddress == InitAddress /\ [][NextAddress]_vars

\* The rings of the encoded geometries: every ring of at most MaxRingLen
\* vertices on a grid of two by two points.
Vertices == {0, 1} \X {0, 1}

Rings == UNION {[1 .. n -> Vertices] : n \in 0 .. MaxRingLen}

\* An interior ring.
HoleRing == <<<<2, 2>>, <<3, 2>>, <<3, 3>>, <<2, 2>>>>

\* Parcel 101 with any geometry: none, one ring (version 1), a ring and a
\* hole (version 2).
GeometryFeatures ==
    {[Feature(Some(101), Some(Addr1), Some(500), 1) EXCEPT !.geometry = g] :
        g \in {Null} \cup {Some(<<r>>) : r \in Rings}}
    \cup {[Feature(Some(101), Some(Addr1), Some(500), 2)
              EXCEPT !.geometry = Some(<<r, HoleRing>>)] : r \in Rings}

\* A run of any script that has fetched, as its first page, one parcel
\* with any geometry.
InitGeometry ==
    \E s \in Sources, f \in GeometryFeatures : AfterFirstPage(s, <<f>>)

NextGeometry ==
    \/ MergePage
    \/ MergeFail

\* The merge of a page whose parcel carries any geometry.
SpecGeometry == InitGeometry /\ [][NextGeometry]_vars

\* What a service that honours resultOffset can hold: features of
\* different OBJECTIDs, in the order it pages them.
Upstreams ==
    {SeqOfFeatures(S) : S \in {T \in SUBSET Features :
        \A f, g \in T : f # g => KeyOf(f) # KeyOf(g)}}

\* The most features the service returns in one response (its
\* maxRecordCount), which can be fewer than the resultRecordCount asked for.
ServiceLimits == 1 .. PageSize

Min(a, b) == IF a <= b THEN a ELSE b

\* The response to a page request with resultOffset `off`: the features
\* from that position on, as many as were asked for and the service returns.
ServicePage(sv, off) ==
    SubSeq(sv.upstream, off + 1,
           Min(off + Min(PageSize, sv.limit), Len(sv.upstream)))

\* exceededTransferLimit of that response: features remain after it.
ServiceExceeded(sv, off) ==
    off + Len(ServicePage(sv, off)) < Len(sv.upstream)

\* A run of any script against a service that holds a fixed list of
\* features.
InitService ==
    /\ InitRun
    /\ service \in {Some([upstream |-> u, limit |-> n]) :
                        u \in Upstreams, n \in ServiceLimits}
    /\ runner = Null

\* The count query, answered with the number of features the service holds.
ServiceCount ==
    /\ ~IsNull(service)
    /\ CountFrom({Len(The(service).upstream)})
    /\ \A i \in 1 .. Len(events') : events'[i] # "unexpected body"

\* A page request, answered by the service from what it holds.
FetchServicePage ==
    /\ pc = "Paging"
    /\ ~IsNull(service)
    /\ FetchFrom({ServicePage(The(service), The(offset))}, The(total_records))
    /\ \A i \in 1 .. Len(events') : events'[i] # "unexpected body"
    /\ pc' = "Fetched" =>
          exceeded' = (src = "auckland"
                       /\ ServiceExceeded(The(service), The(offset)))
    /\ progress' = (IF pc' = "Fetched" /\ src # "wellington"
                    THEN ProgressOf(total_processed', The(total_records))
                    ELSE progress)

NextService ==
    \/ MissingConfig
    \/ Connect
    \/ ConnectFail
    \/ ServiceCount
    \/ CountFail
    \/ FetchServicePage
    \/ FetchFail
    \/ MergePage
    \/ MergeFail

\* One run of a script against a service that holds a fixed list of
\* features.
SpecService == InitService /\ [][NextService]_vars

\* The same run when the script is not stopped from outside and every
\* call it makes returns or raises: the start of the script, the count
\* query, the page request and the page's transaction each take their
\* step.  The transaction has a step to take exactly while a page is
\* fetched and not yet merged, so its weak fairness is written with that
\* enabling condition.
FairSpecService ==
    /\ SpecService
    /\ WF_vars(MissingConfig \/ Connect \/ ConnectFail)
    /\ WF_vars(ServiceCount \/ CountFail)
    /\ WF_vars(FetchServicePage \/ FetchFail)
    /\ ([]<>(pc # "Fetched") \/ []<><<MergePage \/ MergeFail>>_vars)

(* ------------------------------ run.py -------------------------------- *)

\* A file under the directory of run.py: the directory it is in, relative
\* to that of run.py, its name and the ending of its name.
File(dir, stem, ext) == [dir |-> dir, stem |-> stem, ext |-> ext]

\* os.path.abspath(__file__)
RunPy == File(<<>>, "run", "py")

\* The files that may be there beside run.py.
OtherFiles ==
    { File(<<>>, "restart_db", "py"),
      File(<<>>, "notes", "txt"),
      File(<<"auckland">>, "download", "py"),
      File(<<"auckland">>, "run", "py"),
      File(<<"qldc">>, "download", "py"),
      File(<<"qldc", "old">>, "download", "py") }

\* The directories os.walk(root_dir) visits, top-down: root_dir itself
\* first, then what is below it.
WalkOrder == << <<>>, <<"auckland">>, <<"qldc">>, <<"qldc", "old">> >>

\* The dirpath values of os.walk(root_dir) for the files `tree`.
DirsOf(tree) ==
    SelectSeq(WalkOrder, LAMBDA d : \E f \in tree : f.dir = d)

\* filenames of the directory d.
FilesIn(tree, d) == {f \in tree : f.dir = d}

\* filename.endswith('.py') and full_path != os.path.abspath(__file__)
IsScriptToRun(f) == f.ext = "py" /\ f # RunPy

\* The exit status of an executed script: that of a download script's
\* run, or of any other script.
ExitStatuses == {ExitStatus(p) : p \in Terminal}

\* run.py is started in a directory that holds it and any of the other
\* files.
InitRunner ==
    /\ InitRun
    /\ service = Null
    /\ \E others \in SUBSET OtherFiles :
          LET tree == {RunPy} \cup others
          IN  runner = Some([tree     |-> tree,
                             dirs     |-> DirsOf(tree),
                             files    |-> FilesIn(tree, Head(DirsOf(tree))),
                             executed |-> <<>>])

\* One pass of the inner loop for a file that is a script to run:
\* subprocess.run, whose CalledProcessError on a status other than 0 is
\* caught and reported.
RunnerExecute ==
    /\ ~IsNull(runner)
    /\ \E f \in The(runner).files, status \in ExitStatuses :
          /\ IsScriptToRun(f)
          /\ runner' = Some([The(runner) EXCEPT
                                !.files = @ \ {f},
                                !.executed = Append(@, [file |-> f,
                                                        status |-> status])])
    /\ UNCHANGED <<src, pc, conn, total_records, offset, total_processed,
                   total_upserted, rows_affected, progress, features, exceeded,
                   staging, table, clock, fetches, summary, failedAt,
                   lastMerge, committed, events, service>>

\* One pass of the inner loop for any other file.
RunnerSkip ==
    /\ ~IsNull(runner)
    /\ \E f \in The(runner).files :
          /\ ~IsScriptToRun(f)
          /\ runner' = Some([The(runner) EXCEPT !.files = @ \ {f}])
    /\ UNCHANGED <<src, pc, conn, total_records, offset, total_processed,
                   total_upserted, rows_affected, progress, features, exceeded,
                   staging, table, clock, fetches, summary, failedAt,
                   lastMerge, committed, events, service>>

\* The outer loop goes on to the next directory.
RunnerNextDir ==
    /\ ~IsNull(runner)
    /\ The(runner).files = {}
    /\ Len(The(runner).dirs) > 1
    /\ runner' = Some([The(runner) EXCEPT
                          !.dirs = Tail(@),
                          !.files = FilesIn(The(runner).tree,
                                            Head(Tail(The(runner).dirs)))])
    /\ UNCHANGED <<src, pc, conn, total_records, offset, total_processed,
                   total_upserted, rows_affected, progress, features, exceeded,
                   staging, table, clock, fetches, summary, failedAt,
                   lastMerge, committed, events, service>>

NextRunner ==
    \/ RunnerExecute
    \/ RunnerSkip
    \/ RunnerNextDir

\* One run of run.py.
SpecRunner == InitRunner /\ [][NextRunner]_vars

(* ----------------------------- the claims ----------------------------- *)

\* The staged record of the last committed merge that carries object_id
\* `id`, as the row it was offered as.
IdOf(rec) == The(rec.object_id)

MergedRecords == {lastMerge.batch[i] : i \in 1 .. Len(lastMerge.batch)}

\* The records of the last committed merge whose object_id was in the
\* table before it.
Remerged == {rec \in MergedRecords : IdOf(rec) \in DOMAIN lastMerge.before}

\* The gated update rewrote the row of `rec`: it carries the record's stamp.
Fired(rec) == table[IdOf(rec)].last_updated = rec.last_updated

\* C1: in every pipeline, when a run that has committed pages 1..N fails
\* (the next page request raises, or a statement of the next page's
\* transaction raises), the run stops there and the durable table is the
\* table as page N's commit left it: what the committed pages wrote is
\* kept, nothing of it is rolled back.
C1_CommittedPagesSurviveFailure ==
    (pc = "Failed" /\ lastMerge.done) =>
        /\ table = lastMerge.after
        /\ \A rec \in MergedRecords : IdOf(rec) \in DOMAIN table
        /\ ~ENABLED (FetchPage \/ FetchFail \/ MergePage \/ MergeFail)

\* A run whose second page request raised after its first page was merged
\* and wrote rows.
C1_Witness ==
    /\ pc = "Failed"
    /\ failedAt = "fetch"
    /\ lastMerge.done
    /\ lastMerge.rowcount > 0
    /\ Len(fetches) = 2

\* C2: a page's merge is all or nothing: when a statement of the page's
\* transaction raises, the run fails and every row of the durable table is
\* as it was before the page, and no row was added: no insert and no update
\* of that page's records is kept.
C2_FailedMergeLeavesNoTrace ==
    [][(pc = "Fetched" /\ pc' # "Paging" /\ pc' # "Done") =>
          /\ pc' = "Failed"
          /\ DOMAIN table' = DOMAIN table
          /\ \A i \in 1 .. Len(features) :
                \A id \in features[i].oid :
                    /\ id \in DOMAIN table' <=> id \in DOMAIN table
                    /\ id \in DOMAIN table => table'[id] = table[id]]_vars

\* A page whose transaction failed at the commit, after its upsert had
\* inserted a row and rewritten another one.
C2_Witness ==
    /\ pc = "Failed"
    /\ failedAt = "commit"
    /\ \E i \in 1 .. Len(features) : \E id \in features[i].oid :
          id \notin DOMAIN table
    /\ \E i \in 1 .. Len(features) : \E id \in features[i].oid :
          /\ id \in DOMAIN table
          /\ table[id].capital_value # features[i].cv

\* C3: merging the same batch twice in a row is idempotent: the second
\* merge, whose records differ from the first's only by their newer
\* last_updated, leaves every durable row (last_updated included) as the
\* first merge left it, and its rows-affected count is zero (rows_affected
\* holds that count until a later page's transaction overwrites it).
C3_RemergeIsIdempotent ==
    (lastMerge.done /\ lastMerge.repeat) =>
        /\ table = lastMerge.before
        /\ lastMerge.after = lastMerge.before
        /\ lastMerge.rowcount = 0
        /\ failedAt = "none" => rows_affected = Some(0)

\* A batch of two records merged a second time, each record stamped later
\* than the row it meets.
C3_Witness ==
    /\ lastMerge.done
    /\ lastMerge.repeat
    /\ Len(lastMerge.batch) = 2
    /\ \A rec \in MergedRecords :
          table[IdOf(rec)].last_updated < rec.last_updated

\* C4: re-merging a record whose object_id is in the table with a
\* capital_value other than the stored one overwrites the row: its
\* capital_value and last_updated are the incoming record's, and the
\* record is counted in the merge's rows-affected.
C4_ChangedCapitalValueOverwrites ==
    lastMerge.done =>
        LET changed == {rec \in Remerged :
                lastMerge.before[IdOf(rec)].capital_value # rec.capital_value}
        IN  /\ \A rec \in changed :
                  /\ table[IdOf(rec)].capital_value = rec.capital_value
                  /\ table[IdOf(rec)].last_updated = rec.last_updated
            /\ lastMerge.rowcount >= Cardinality(changed)
            /\ failedAt = "none" => rows_affected = Some(lastMerge.rowcount)

\* A merge that met a stored row with the same address and another capital
\* value, and was the only record counted.
C4_Witness ==
    /\ lastMerge.done
    /\ lastMerge.rowcount = 1
    /\ \E rec \in Remerged :
          /\ lastMerge.before[IdOf(rec)].capital_value = Some(500)
          /\ rec.capital_value = Some(650)
          /\ lastMerge.before[IdOf(rec)].physical_address = rec.physical_address
          /\ table[IdOf(rec)].capital_value = Some(650)

\* C5: for an incoming record whose object_id is in the table, the update
\* fires exactly when capital_value or physical_address differs between the
\* stored row and the record, NULL equal to NULL and different from every
\* value; when it does not fire the stored row is unchanged in every
\* column, last_updated included, whatever else the record carries.
C5_UpdateGatedByChangePredicate ==
    lastMerge.done =>
        \A rec \in Remerged :
            LET old == lastMerge.before[IdOf(rec)]
                new == table[IdOf(rec)]
                differs == \/ old.capital_value # rec.capital_value
                           \/ old.physical_address # rec.physical_address
            IN  /\ differs => /\ Fired(rec)
                              /\ new.capital_value = rec.capital_value
                              /\ new.physical_address = rec.physical_address
                /\ ~differs => new = old /\ ~Fired(rec)

\* A merge that met a stored row with the same capital value and the same
\* address but another land value and another geometry, and left it as it
\* was.
C5_Witness ==
    /\ lastMerge.done
    /\ \E rec \in Remerged :
          LET old == lastMerge.before[IdOf(rec)]
          IN  /\ old.capital_value = rec.capital_value
              /\ old.physical_address = rec.physical_address
              /\ old.land_value # rec.land_value
              /\ old.geom # ST_GeomFromText(rec.geometry_wkt)
              /\ table[IdOf(rec)] = old

\* C6 (as claimed): when the gated update fires, the row's address, value
\* fields (land, capital, improvements), derived address fields, valuation
\* date, last_updated and geometry all equal the incoming record's.
C6_UpdateWritesAllMutableFields ==
    lastMerge.done =>
        \A rec \in Remerged :
            LET new == table[IdOf(rec)]
            IN  Fired(rec) =>
                    /\ new.physical_address = rec.physical_address
                    /\ new.land_value = rec.land_value
                    /\ new.capital_value = rec.capital_value
                    /\ new.improvements_value = rec.improvements_value
                    /\ new.street = rec.street
                    /\ new.locality = rec.locality
                    /\ new.postcode = rec.postcode
                    /\ new.valuation_date = rec.valuation_date
                    /\ new.last_updated = rec.last_updated
                    /\ new.geom = ST_GeomFromText(rec.geometry_wkt)

\* C7: when the update fires for a stored object_id, the row keeps its
\* object_id, land_use_description and property_type_description, whatever
\* the incoming record carries for them.
C7_UpdateKeepsClassification ==
    lastMerge.done =>
        \A rec \in Remerged :
            LET old == lastMerge.before[IdOf(rec)]
                new == table[IdOf(rec)]
            IN  /\ new.object_id = old.object_id
                /\ new.object_id = Some(IdOf(rec))
                /\ new.land_use_description = old.land_use_description
                /\ new.property_type_description = old.property_type_description

\* An update that fired for a record carrying another land use and another
\* property type than the stored row.
C7_Witness ==
    /\ lastMerge.done
    /\ \E rec \in Remerged :
          /\ Fired(rec)
          /\ rec.land_use_description
                # lastMerge.before[IdOf(rec)].land_use_description
          /\ rec.property_type_description
                # lastMerge.before[IdOf(rec)].property_type_description

\* C8 (as claimed): in every pipeline a count of 0 ends the run with no
\* page request and no database write, and with a summary of processed = 0
\* and upserted = 0.
C8_ZeroCountEndsWithZeroSummary ==
    total_records = Some(0) =>
        /\ fetches = <<>>
        /\ ~lastMerge.done
        /\ pc \in Terminal
        /\ summary = Some([processed |-> Some(0), upserted |-> Some(0)])

\* C9 (as claimed): in every pipeline, a merged page that was short (fewer
\* than PageSize features) and carried no exceeded-transfer-limit flag ends
\* the run: Done follows the merge, with no further page request.
C9_ShortPageEndsTheRun ==
    [][(/\ pc = "Fetched"
        /\ Len(features) < PageSize
        /\ ~exceeded
        /\ pc' \in {"Paging", "Done"}) =>
          pc' = "Done" /\ fetches' = fetches]_vars

\* The steps of the paging loop, the total count read as `tr`.
LoopStep(tr) ==
    \/ FetchPageCore(tr)
    \/ FetchFail
    \/ MergePageCore(tr)
    \/ MergeFail

\* C10: the total count serves the progress line only: every step of the
\* paging loop is the step the run takes on the same response with any
\* other count >= 1 (the same request, batch, table, totals and next
\* position), and the loop ends with `break` only on an empty page or on
\* the last-page test of a merged page.
C10_CountOnlyForProgress ==
    [][(pc = "Paging" \/ pc = "Fetched") =>
          /\ \A count \in Counts \ {0} : LoopStep(count)
          /\ (pc' = "Done") =>
                (\/ (pc = "Paging" /\ fetches' # fetches)
                 \/ (/\ pc = "Fetched"
                     /\ src # "wellington"
                     /\ Len(features) < PageSize
                     /\ (src = "auckland" => ~exceeded)))
       ]_vars

\* A run that ended after processing more features than the count
\* announced.
C10_Witness ==
    /\ pc = "Done"
    /\ \E n \in total_records : \E tp \in total_processed : n < tp
    /\ lastMerge.done

\* C11 (as claimed): in every pipeline a feature without OBJECTID is
\* dropped without error: a fetched page that holds such a feature can be
\* merged and committed, the feature does not make the page's transaction
\* raise.
C11_MissingIdIsDropped ==
    (pc = "Fetched" /\ \E i \in 1 .. Len(features) : IsNull(features[i].oid))
        => ~MergeMustFail(src, features,
                          LoadStaging(ClearStaging(staging),
                                      BuildBatch(src, features, clock)))

\* C12 (as claimed): in every pipeline a feature with a malformed field (a
\* valuation date of the wrong type, an area that is no number, an empty
\* ring list) never makes the run fail: a fetched page that holds such a
\* feature can be merged and committed.
C12_MalformedFieldDegrades ==
    (pc = "Fetched" /\ \E i \in 1 .. Len(features) : features[i].bad # "none")
        => ~PageRaises(src, features)

\* C13 (as claimed): a response whose body lacks the expected member (a
\* page response without `features`, a count response without `count`)
\* ends the run in Failed: it is never read as an empty page or as a count
\* of zero.
C13_UnexpectedBodyIsFatal ==
    (\E i \in 1 .. Len(events) : events[i] = "unexpected body") => pc = "Failed"

\* A transaction is open after the events `evs` when it was `open` before.
RECURSIVE OpenAfter(_, _)
OpenAfter(open, evs) ==
    IF evs = <<>> THEN open
    ELSE OpenAfter(CASE Head(evs) = "begin" -> TRUE
                     [] Head(evs) \in {"commit", "rollback", "close"} -> FALSE
                     [] OTHER -> open,
                   Tail(evs))

\* No event of `evs` closes the connection while a transaction is open.
ClosesCleanly(evs) ==
    \A i \in 1 .. Len(evs) :
        evs[i] = "close" => ~OpenAfter(FALSE, SubSeq(evs, 1, i - 1))

\* C14: in every pipeline the connection is acquired at most once per run
\* (only a run that has no connection yet connects, and a closed
\* connection is not opened again) and every step that ends the run leaves
\* no connection open; where the connection is closed, a transaction begun
\* by the step was rolled back or committed before.
C14_ConnectionReleased ==
    [][/\ pc' \in Terminal => conn' # "open"
       /\ ClosesCleanly(events')
       /\ (\E i \in 1 .. Len(events') : events'[i] = "connect") =>
              conn = "none" /\ pc = "Idle"
       /\ conn = "closed" => (conn' = "closed" \/ pc' = "Idle")]_vars

\* A run that failed at the commit of a page: the transaction was rolled
\* back and then the connection was closed.
C14_Witness ==
    /\ pc = "Failed"
    /\ failedAt = "commit"
    /\ conn = "closed"
    /\ events = <<"begin", "rollback", "close">>

\* C15 (as claimed): every run that ends, in Done or in failure (at the
\* connect, at the count query, in the paging loop), prints a summary with
\* the records processed and the records upserted.
C15_SummaryOnEveryOutcome ==
    (\/ pc \in {"Done", "Failed", "Crashed"}
     \/ pc = "Exited" /\ failedAt = "count") =>
        /\ ~IsNull(summary)
        /\ \A sm \in summary : ~IsNull(sm.processed) /\ ~IsNull(sm.upserted)

\* C16 (as claimed): a run that fails after it committed pages prints
\* totals that count the committed pages only: processed is the number of
\* features of the committed pages, upserted the sum of their rowcounts.
C16_FailedSummaryCountsCommittedPages ==
    (pc = "Failed" /\ lastMerge.done) =>
        summary = Some([processed |-> Some(committed.processed),
                        upserted  |-> Some(committed.upserted)])

\* C17 (as claimed): the exit status tells a failed run from a successful
\* one: it is not 0 after Failed (and after a missing DATABASE_URL or a
\* failed count query) and 0 after Done.
C17_ExitStatusTellsOutcome ==
    /\ (\/ pc \in {"Failed", "Crashed"}
        \/ pc = "Exited" /\ (conn = "none" \/ failedAt = "count"))
           => ExitStatus(pc) # 0
    /\ pc = "Done" => ExitStatus(pc) = 0

\* C18: a run without DATABASE_URL ends before anything is asked of the
\* service or of the database: the step from Idle to the exit connects to
\* nothing, requests nothing and leaves table and staging as they are.
C18_MissingConfigTouchesNothing ==
    [][(pc = "Idle" /\ pc' = "Exited") =>
          /\ events' = <<>>
          /\ conn' = "none"
          /\ fetches' = <<>>
          /\ total_records' = Null
          /\ table' = table
          /\ staging' = staging]_vars

\* A run without DATABASE_URL, started after an earlier run filled the
\* table.
C18_Witness ==
    /\ pc = "Exited"
    /\ conn = "none"
    /\ events = <<>>
    /\ table # <<>>

\* The events `evs` are sequential, a transaction being open before them
\* or not: none begins a transaction or sends a request while one is open.
RECURSIVE Sequential(_, _)
Sequential(open, evs) ==
    \/ evs = <<>>
    \/ /\ Head(evs) \in {"begin", "fetch", "count"} => ~open
       /\ Sequential(OpenAfter(open, <<Head(evs)>>), Tail(evs))

\* C19: the pipeline is sequential, one transaction at a time: no step
\* requests a page or begins a transaction while a transaction is open, and
\* every step leaves no transaction open, so that the request of page N+1
\* finds the transaction of page N committed and no transaction spans two
\* pages.
C19_OneTransactionAtATime ==
    /\ Sequential(FALSE, events)
    /\ ~OpenAfter(FALSE, events)
    /\ (pc = "Paging" /\ lastMerge.done) => table = lastMerge.after

\* The second page was requested after the first page's transaction
\* committed rows.
C19_Witness ==
    /\ pc = "Fetched"
    /\ events = <<"fetch">>
    /\ Len(fetches) = 2
    /\ lastMerge.done
    /\ lastMerge.rowcount > 0

\* C20: staging is cleared at the start of every page's transaction: when
\* the upsert of a page executes, temp_properties holds exactly the
\* records built from that page, whatever rows an earlier page left there.
C20_UpsertReadsThePageOnly ==
    lastMerge.done => lastMerge.staged = lastMerge.batch

\* A page merged while temp_properties still held the other records of the
\* page before it.
C20_Witness ==
    /\ lastMerge.done
    /\ lastMerge.found # <<>>
    /\ lastMerge.batch # <<>>
    /\ Unstamp(lastMerge.found) # Unstamp(lastMerge.batch)
    /\ lastMerge.staged = lastMerge.batch

\* C20 (as claimed): staging exists only inside a page's transaction and
\* is gone before the next page begins, and the upsert reads exactly the
\* page's records.
C20_StagingOnlyInsideTransaction ==
    /\ staging = <<>>
    /\ lastMerge.done => lastMerge.staged = lastMerge.batch

\* The records of the last committed merge that were inserted: their
\* object_id was not in the table before it.
Inserted == {rec \in MergedRecords : IdOf(rec) \notin DOMAIN lastMerge.before}

\* C21: the cur.rowcount of every merged batch is the number of rows it
\* inserted plus the number of rows whose gated update fired, and is at
\* most the number of records of the batch; so the upserted total of a run
\* never exceeds its processed total (in Wellington, which keeps no
\* processed total, the number of features of the pages it committed).
C21_RowcountIsInsertsPlusUpdates ==
    /\ lastMerge.done =>
          /\ lastMerge.rowcount =
                Cardinality(Inserted)
                + Cardinality({rec \in Remerged : Fired(rec)})
          /\ lastMerge.rowcount <= Len(lastMerge.batch)
    /\ \A tu \in total_upserted :
          /\ \A tp \in total_processed : tu <= tp
          /\ src = "wellington" => tu <= committed.processed

\* A merge of two records that inserted one row and left the other row,
\* which it met unchanged, as it was: one row affected, two processed.
C21_Witness ==
    /\ lastMerge.done
    /\ Len(lastMerge.batch) = 2
    /\ Cardinality(Inserted) = 1
    /\ lastMerge.rowcount = 1
    /\ total_processed = Some(2)
    /\ total_upserted = Some(1)

\* C22: no step of any run of any pipeline deletes a durable row: whether
\* a page is merged, a merge or a request fails, or a later run finds a
\* feature gone from the service, every object_id that is in the table
\* before the step is in it after the step, under the same key.
C22_NoRowIsDeleted ==
    [][\A id \in DOMAIN table :
          /\ id \in DOMAIN table'
          /\ table'[id].object_id = Some(id)]_vars

\* A run that ended normally after one page, in which a parcel stored by
\* an earlier run did not occur: its row is still there.
C22_Witness ==
    /\ pc = "Done"
    /\ Len(fetches) = 1
    /\ lastMerge.done
    /\ lastMerge.rowcount > 0
    /\ \E id \in DOMAIN lastMerge.before :
          /\ \A rec \in MergedRecords : IdOf(rec) # id
          /\ id \in DOMAIN table
          /\ table[id] = lastMerge.before[id]

\* The characters i .. j of the text s are one of its lines.
IsLine(s, i, j) ==
    /\ i <= j
    /\ \A k \in i .. j : s[k] \notin LineBreaks
    /\ i = 1 \/ s[i - 1] \in LineBreaks
    /\ j = Len(s) \/ s[j + 1] \in LineBreaks

\* The lines of s that are not blank, each as the pair of its ends.
NonBlankLines(s) ==
    {ln \in (1 .. Len(s)) \X (1 .. Len(s)) :
        /\ IsLine(s, ln[1], ln[2])
        /\ \E k \in ln[1] .. ln[2] : s[k] \notin Spaces}

\* The text t without the white space at its ends.
Trimmed(t) ==
    LET inked == {k \in 1 .. Len(t) : t[k] \notin Spaces}
    IN  IF inked = {} THEN <<>>
        ELSE SubSeq(t, CHOOSE a \in inked : \A k \in inked : a <= k,
                       CHOOSE b \in inked : \A k \in inked : k <= b)

\* What the claim expects of the address text s, which has a line that is
\* not blank.
ExpectedAddress(s) ==
    LET lines  == NonBlankLines(s)
        first  == CHOOSE ln \in lines : \A other \in lines : ln[1] <= other[1]
        last   == CHOOSE ln \in lines : \A other \in lines : other[1] <= ln[1]
        final  == Trimmed(SubSeq(s, last[1], last[2]))
        n      == Len(final)
        token  == n >= 4 /\ \A k \in (n - 3) .. n : final[k] \in Digits
    IN  [street   |-> Some(Trimmed(SubSeq(s, first[1], first[2]))),
         locality |-> IF Cardinality(lines) < 2 THEN Null
                      ELSE IF token THEN Some(Trimmed(SubSeq(final, 1, n - 4)))
                      ELSE Some(final),
         postcode |-> IF Cardinality(lines) >= 2 /\ token
                      THEN Some(SubSeq(final, n - 3, n))
                      ELSE Null]

\* C23: the Auckland record built from an address that has a non-blank
\* line carries as street the first non-blank line, trimmed.  When the
\* address has two or more non-blank lines and the last of them, trimmed,
\* ends with four digits, postcode is those four digits and locality is
\* the rest of that line, trimmed; when it does not end with four digits,
\* postcode is null and locality is that line, trimmed.  When the address
\* has one non-blank line, locality and postcode are null.
C23_AddressDecomposition ==
    (src = "auckland" /\ lastMerge.done) =>
        \A rec \in MergedRecords : \A s \in rec.physical_address :
            (\E k \in 1 .. Len(s) : s[k] \notin Spaces) =>
                LET expected == ExpectedAddress(s)
                IN  /\ rec.street = expected.street
                    /\ rec.locality = expected.locality
                    /\ rec.postcode = expected.postcode

\* The address "W", line break, "W 1111" was taken apart into the street
\* "W", the locality "W" and the postcode "1111".
C23_Witness ==
    /\ lastMerge.done
    /\ \E rec \in MergedRecords :
          /\ rec.physical_address = Some(<<"W", "\r", "W", " ", "1", "1", "1", "1">>)
          /\ rec.street = Some(<<"W">>)
          /\ rec.locality = Some(<<"W">>)
          /\ rec.postcode = Some(<<"1", "1", "1", "1">>)
          /\ table[IdOf(rec)].postcode = rec.postcode

\* The literal `wkt` lists the vertices of `ring`, pair by pair, in their
\* order, and nothing else.
ListsExactly(wkt, ring) ==
    /\ ~IsNull(wkt)
    /\ \A lit \in wkt :
          /\ Len(lit) = (IF ring = <<>> THEN 2 ELSE 4 * Len(ring) + 1)
          /\ lit[1] = "POLYGON(("
          /\ lit[Len(lit)] = "))"
          /\ \A k \in 1 .. Len(ring) :
                /\ lit[4 * k - 2] = FormatNumber(ring[k][1])
                /\ lit[4 * k - 1] = " "
                /\ lit[4 * k] = FormatNumber(ring[k][2])
                /\ k < Len(ring) => lit[4 * k + 1] = ", "

\* C24: the literal built from a feature whose geometry has rings lists
\* the vertices of the first ring, as many pairs as the ring has vertices,
\* in the ring's order, with no closing point added and nothing of a
\* second ring; a feature without geometry gets a null literal.  When the
\* page commits and inserts the feature's row, the row's polygon is that
\* ring, and the row of a feature without geometry is stored with a null
\* polygon.
C24_GeometryEncoding ==
    [][pc = "Fetched" =>
          \A i \in 1 .. Len(features) : \A id \in features[i].oid :
              LET f   == features[i]
                  wkt == Normalize(src, f, clock).geometry_wkt
                  inserted == /\ pc' \in {"Paging", "Done"}
                              /\ lastMerge'.done
                              /\ id \notin DOMAIN table
              IN  /\ IsNull(f.geometry) => IsNull(wkt)
                  /\ \A rings \in f.geometry : ListsExactly(wkt, rings[1])
                  /\ inserted =>
                        /\ id \in DOMAIN table'
                        /\ \E j \in 1 .. Len(lastMerge'.batch) :
                              /\ lastMerge'.batch[j].object_id = Some(id)
                              /\ lastMerge'.batch[j].geometry_wkt = wkt
                        /\ IsNull(f.geometry) => IsNull(table'[id].geom)
                        /\ \A rings \in f.geometry :
                              table'[id].geom =
                                  Some([srid |-> 2193, ring |-> rings[1]])]_vars

\* The parcel with a ring of four vertices and a hole was stored with the
\* polygon of the four vertices.
C24_Witness ==
    /\ lastMerge.done
    /\ \E rec \in MergedRecords :
          /\ rec.property_no = PropertyNoOf(2)
          /\ rec.geometry_wkt =
                Some(<<"POLYGON((", "0", " ", "0", ", ", "1", " ", "0", ", ",
                       "1", " ", "1", ", ", "0", " ", "0", "))">>)
          /\ table[IdOf(rec)].geom =
                Some([srid |-> 2193,
                      ring |-> <<<<0, 0>>, <<1, 0>>, <<1, 1>>, <<0, 0>>>>])

\* C25 (as claimed): a run that ends in Done without a failure has asked
\* for the offsets 0, PageSize, 2 * PageSize, ... and its pages cover what
\* the service holds, also when the service returns short pages that are
\* not the last: every feature of the service that has an OBJECTID has a
\* row in the table.
C25_PaginationCoversUpstream ==
    (pc = "Done" /\ failedAt = "none") =>
        \A sv \in service :
            /\ \A i \in 1 .. Len(fetches) : fetches[i] = (i - 1) * PageSize
            /\ \A k \in 1 .. Len(sv.upstream) :
                  \A id \in sv.upstream[k].oid : id \in DOMAIN table

\* The least number of pages of `size` positions that hold `total`.
CeilDiv(total, size) == (total + size - 1) \div size

\* C26: against a service that holds finitely many features and honours
\* resultOffset, a run that is not interrupted comes to an end (Done,
\* Failed, or the exit of a script that found nothing to do or could not
\* start), and it never sends more page requests than the number of
\* pages the features fill plus one.
C26_EveryRunTerminates ==
    /\ <>(pc \in Terminal)
    /\ [](\A sv \in service :
            Len(fetches) <= CeilDiv(Len(sv.upstream), PageSize) + 1)

\* A Wellington run against a service of two features: it merged the full
\* page and ended on the empty page that followed, with as many requests
\* as the bound allows.
C26_Witness ==
    /\ pc = "Done"
    /\ src = "wellington"
    /\ lastMerge.done
    /\ \E sv \in service :
          /\ Len(sv.upstream) = 2
          /\ Len(fetches) = CeilDiv(Len(sv.upstream), PageSize) + 1

\* The walk of run.py is over: "All scripts have been executed."
RunnerFinished(r) == r.files = {} /\ Len(r.dirs) <= 1

\* C27 (as claimed): run.py executes the Python scripts in the
\* subdirectories of its directory and no other file: never itself, never
\* a script of its own directory such as restart_db.py, no script twice;
\* and when its walk is over it has executed every script of the
\* subdirectories, whatever the exit status of the scripts before.
C27_RunnerExecutesSubdirectoryScripts ==
    \A r \in runner :
        LET ran == {r.executed[i].file : i \in 1 .. Len(r.executed)}
        IN  /\ \A f \in ran : f.dir # <<>> /\ f.ext = "py" /\ f \in r.tree
            /\ Cardinality(ran) = Len(r.executed)
            /\ RunnerFinished(r) =>
                  ran = {f \in r.tree : f.dir # <<>> /\ f.ext = "py"}

=============================================================================
